---- MODULE Spec2Model ----
(***************************************************************************)
(* zkkodb command decoder (src/zkkodb/src/parser.rs).                      *)
(*                                                                         *)
(* parser.rs declares the request grammar as serde types:                  *)
(*   - Command, an internally tagged enum (tag "command");                 *)
(*   - CreateCommand / UpdateCommand / DeleteCommand, internally tagged    *)
(*     enums (tag "type") with struct variants;                            *)
(*   - ReadCommand / InsertCommand / ColumnDefinition, plain structs.      *)
(* The decoder is the Deserialize implementation those declarations        *)
(* derive.  It is modelled here as a pure function Command(raw) over a     *)
(* parsed JSON tree, following the derived visitors step by step:          *)
(*   - an internally tagged enum buffers the whole message (ToContent),    *)
(*     takes the tag out and hands the rest to the variant;                *)
(*   - a struct is read from a map (by field name) or from a sequence      *)
(*     (by position, in declaration order);                                *)
(*   - a HashMap is filled entry by entry with insert.                     *)
(* A JSON number arrives as one of three kinds (non-negative integer,      *)
(* negative integer, float); floats are written in hundredths.             *)
(***************************************************************************)
EXTENDS Integers, Sequences, FiniteSets, TLC

VARIABLES raw, result, pc

vars == <<raw, result, pc>>

(***************************************************************************)
(* The parsed message: a JSON tree.                                        *)
(***************************************************************************)
JNull == [kind |-> "null"]
JBool(b) == [kind |-> "bool", b |-> b]
JPosInt(n) == [kind |-> "posint", n |-> n]
JNegInt(n) == [kind |-> "negint", n |-> n]
JFloat(h) == [kind |-> "float", h |-> h]
JStr(s) == [kind |-> "str", s |-> s]
JArr(items) == [kind |-> "array", items |-> items]
JObj(fields) == [kind |-> "object", fields |-> fields]

(***************************************************************************)
(* Results of a deserializer.                                              *)
(***************************************************************************)
Ok(v) == [ok |-> TRUE, val |-> v]
Err(kind, at) == [ok |-> FALSE, err |-> kind, at |-> at]

None == [some |-> FALSE]
Some(v) == [some |-> TRUE, v |-> v]

EmptyMap == [k \in {} |-> None]

MinOf(S) == CHOOSE i \in S : \A j \in S : i <= j
MaxOf(S) == CHOOSE i \in S : \A j \in S : j <= i

(***************************************************************************)
(* The buffer of an internally tagged enum: the message is first read      *)
(* into a self-describing tree, from which the variant is then             *)
(* deserialized.                                                           *)
(***************************************************************************)
RECURSIVE ToContent(_)
ToContent(j) ==
  CASE j.kind = "null"   -> [c |-> "Unit"]
    [] j.kind = "bool"   -> [c |-> "Bool", b |-> j.b]
    [] j.kind = "posint" -> [c |-> "U64", n |-> j.n]
    [] j.kind = "negint" -> [c |-> "I64", n |-> j.n]
    [] j.kind = "float"  -> [c |-> "F64", h |-> j.h]
    [] j.kind = "str"    -> [c |-> "String", s |-> j.s]
    [] j.kind = "array"  ->
         [c |-> "Seq", items |-> [i \in 1..Len(j.items) |-> ToContent(j.items[i])]]
    [] j.kind = "object" ->
         [c |-> "Map",
          entries |-> [i \in 1..Len(j.fields) |->
                         <<j.fields[i][1], ToContent(j.fields[i][2])>>]]

(***************************************************************************)
(* Field types.                                                            *)
(***************************************************************************)
\* String
DeString(c) ==
  IF c.c = "String" THEN Ok(c.s) ELSE Err("invalid_type", "string")

\* bool
DeBool(c) ==
  IF c.c = "Bool" THEN Ok(c.b) ELSE Err("invalid_type", "bool")

\* Mutation of DeUsize: the sign of a negative integer is not checked.
DeUsizeSigned(c) ==
  CASE c.c = "U64" -> Ok(c.n)
    [] c.c = "I64" -> Ok(c.n)
    [] OTHER -> Err("invalid_type", "usize")

\* usize: any non-negative integer, zero included
DeUsize(c) ==
  CASE c.c = "U64" -> Ok(c.n)
    [] c.c = "I64" -> IF c.n >= 0 THEN Ok(c.n) ELSE Err("invalid_value", "usize")
    [] OTHER -> Err("invalid_type", "usize")

\* Option<String>: null is None
DeOptionString(c) ==
  IF c.c = "Unit" THEN Ok(None)
  ELSE LET some(r) == IF r.ok THEN Ok(Some(r.val)) ELSE r IN some(DeString(c))

\* Option<usize>: null is None
DeOptionUsize(c) ==
  IF c.c = "Unit" THEN Ok(None)
  ELSE LET some(r) == IF r.ok THEN Ok(Some(r.val)) ELSE r IN some(DeUsize(c))

\* The positions of key k among the entries of a map.
Occ(es, k) == {i \in 1..Len(es) : es[i][1] = k}

KeysOf(es) == {es[i][1] : i \in 1..Len(es)}

\* Mutation of DeValue: every number is read as a float.
RECURSIVE DeValueCoerce(_)
DeValueCoerce(c) ==
  CASE c.c = "Unit"   -> Ok([v |-> "Null"])
    [] c.c = "Bool"   -> Ok([v |-> "Bool", b |-> c.b])
    [] c.c = "U64"    -> Ok([v |-> "Number", n |-> [repr |-> "Float", h |-> 100 * c.n]])
    [] c.c = "I64"    -> Ok([v |-> "Number", n |-> [repr |-> "Float", h |-> 100 * c.n]])
    [] c.c = "F64"    -> Ok([v |-> "Number", n |-> [repr |-> "Float", h |-> c.h]])
    [] c.c = "String" -> Ok([v |-> "String", s |-> c.s])
    [] c.c = "Seq"    ->
         Ok([v |-> "Array",
             items |-> [i \in 1..Len(c.items) |-> DeValueCoerce(c.items[i]).val]])
    [] c.c = "Map"    ->
         Ok([v |-> "Object",
             map |-> [k \in KeysOf(c.entries) |->
                        DeValueCoerce(c.entries[MaxOf(Occ(c.entries, k))][2]).val]])

\* serde_json::Value: the value is kept as it is, kind and content.
RECURSIVE DeValue(_)
DeValue(c) ==
  CASE c.c = "Unit"   -> Ok([v |-> "Null"])
    [] c.c = "Bool"   -> Ok([v |-> "Bool", b |-> c.b])
    [] c.c = "U64"    -> Ok([v |-> "Number", n |-> [repr |-> "PosInt", n |-> c.n]])
    [] c.c = "I64"    ->
         Ok([v |-> "Number",
             n |-> IF c.n < 0 THEN [repr |-> "NegInt", n |-> c.n]
                              ELSE [repr |-> "PosInt", n |-> c.n]])
    [] c.c = "F64"    -> Ok([v |-> "Number", n |-> [repr |-> "Float", h |-> c.h]])
    [] c.c = "String" -> Ok([v |-> "String", s |-> c.s])
    [] c.c = "Seq"    ->
         Ok([v |-> "Array",
             items |-> [i \in 1..Len(c.items) |-> DeValue(c.items[i]).val]])
    [] c.c = "Map"    ->
         Ok([v |-> "Object",
             map |-> [k \in KeysOf(c.entries) |->
                        DeValue(c.entries[MaxOf(Occ(c.entries, k))][2]).val]])

\* The deserializer of the type named ty.
RECURSIVE Deserialize(_, _)

\* Mutation of InsertAll: the first entry of a key is kept.
InsertAllFirstWins(es, ty) ==
  [k \in KeysOf(es) |-> Deserialize(ty, es[MinOf(Occ(es, k))][2]).val]

\* HashMap::insert over the entries in order: a later entry replaces an
\* earlier one with the same key.
InsertAll(es, ty) ==
  [k \in KeysOf(es) |-> Deserialize(ty, es[MaxOf(Occ(es, k))][2]).val]

\* Mutation of DeHashMap: an entry whose value is not a ty is skipped.
DeHashMapSkip(c, ty) ==
  IF c.c # "Map" THEN Err("invalid_type", "map")
  ELSE LET es == c.entries
           kept(good) ==
             Ok([k \in {es[i][1] : i \in good} |->
                   Deserialize(ty, es[MaxOf(Occ(es, k) \cap good)][2]).val])
       IN kept({i \in 1..Len(es) : Deserialize(ty, es[i][2]).ok})

\* HashMap<String, ty>: a map only; the first entry whose value is not a ty
\* fails the whole map.
DeHashMap(c, ty) ==
  IF c.c # "Map" THEN Err("invalid_type", "map")
  ELSE LET es == c.entries
           first(bad) == IF bad # {} THEN Deserialize(ty, es[MinOf(bad)][2])
                         ELSE Ok(InsertAll(es, ty))
       IN first({i \in 1..Len(es) : ~Deserialize(ty, es[i][2]).ok})

(***************************************************************************)
(* A derived struct.  fields: the fields in declaration order, each with   *)
(* its name in the message, its type and whether it is #[serde(default)].  *)
(* From a map: an entry whose key names a field is a duplicate_field       *)
(* error if the field was seen before, else its value is deserialized;     *)
(* other keys are ignored; then a field that was not seen takes its        *)
(* default or is a missing_field error.  From a sequence: element i is     *)
(* field i, a field beyond the last element takes its default or is an     *)
(* invalid_length error, and so are elements beyond the last field.        *)
(***************************************************************************)
Field(name, ty, default) == [name |-> name, ty |-> ty, default |-> default]

Absent == [present |-> FALSE]
Present(c) == [present |-> TRUE, c |-> c]

Names(fields) == {fields[i].name : i \in 1..Len(fields)}

IndexOf(fields, k) == CHOOSE i \in 1..Len(fields) : fields[i].name = k

TypeOf(fields, k) == fields[IndexOf(fields, k)].ty

\* Mutation of DefaultOf: a flag defaults to true.
DefaultOfTrue(ty) ==
  CASE ty = "bool" -> TRUE
    [] ty = "Option<String>" -> None
    [] ty = "Option<usize>" -> None
    [] ty = "HashMap<String, Value>" -> EmptyMap

\* Default::default() of a #[serde(default)] field.
DefaultOf(ty) ==
  CASE ty = "bool" -> FALSE
    [] ty = "Option<String>" -> None
    [] ty = "Option<usize>" -> None
    [] ty = "HashMap<String, Value>" -> EmptyMap

StructFromMap(es, fields) ==
  LET seen(i) == \E j \in 1..(i - 1) : es[j][1] = es[i][1]
      de(i) == Deserialize(TypeOf(fields, es[i][1]), es[i][2])
      first(bad) ==
        IF bad # {}
        THEN IF seen(MinOf(bad)) THEN Err("duplicate_field", es[MinOf(bad)][1])
             ELSE de(MinOf(bad))
        ELSE Ok([slots |-> [k \in Names(fields) |->
                              IF Occ(es, k) = {} THEN Absent
                              ELSE Present(es[MinOf(Occ(es, k))][2])],
                 missing |-> "missing_field"])
  IN first({i \in 1..Len(es) :
              es[i][1] \in Names(fields) /\ (seen(i) \/ ~de(i).ok)})

StructFromSeq(items, fields) ==
  LET n == IF Len(items) < Len(fields) THEN Len(items) ELSE Len(fields)
      de(i) == Deserialize(fields[i].ty, items[i])
      first(bad) ==
        IF bad # {} THEN de(MinOf(bad))
        ELSE IF \E i \in (n + 1)..Len(fields) : ~fields[i].default
        THEN Err("invalid_length", "struct")
        ELSE IF Len(items) > Len(fields) THEN Err("invalid_length", "struct")
        ELSE Ok([slots |-> [k \in Names(fields) |->
                              IF IndexOf(fields, k) <= Len(items)
                              THEN Present(items[IndexOf(fields, k)])
                              ELSE Absent],
                 missing |-> "invalid_length"])
  IN first({i \in 1..n : ~de(i).ok})

\* The message's value for every field: from a map by name, from a
\* sequence by position.
Slots(c, fields) ==
  CASE c.c = "Map" -> StructFromMap(c.entries, fields)
    [] c.c = "Seq" -> StructFromSeq(c.items, fields)
    [] OTHER -> Err("invalid_type", "struct")

\* Mutation of Struct: every field is read as if #[serde(default)].
StructAllDefault(c, fields) ==
  LET fill(a) ==
        IF ~a.ok THEN a
        ELSE Ok([k \in Names(fields) |->
                   IF a.val.slots[k].present
                   THEN Deserialize(TypeOf(fields, k), a.val.slots[k].c).val
                   ELSE IF TypeOf(fields, k) = "String" THEN ""
                   ELSE IF TypeOf(fields, k) = "bool" THEN FALSE
                   ELSE IF TypeOf(fields, k)
                             \in {"Option<String>", "Option<usize>"}
                   THEN None ELSE EmptyMap])
  IN fill(Slots(c, fields))

\* The value of every field, by name, or the first error.
Struct(c, fields) ==
  LET fill(a) ==
        IF ~a.ok THEN a
        ELSE LET s == a.val.slots
                 m == {i \in 1..Len(fields) :
                         ~s[fields[i].name].present /\ ~fields[i].default}
             IN IF m # {} THEN Err(a.val.missing, fields[MinOf(m)].name)
                ELSE Ok([k \in Names(fields) |->
                           IF s[k].present
                           THEN Deserialize(TypeOf(fields, k), s[k].c).val
                           ELSE DefaultOf(TypeOf(fields, k))])
  IN fill(Slots(c, fields))

(***************************************************************************)
(* ColumnDefinition: type is required; not_null, unique and default are    *)
(* #[serde(default)].                                                      *)
(***************************************************************************)
ColumnDefinitionFields ==
  <<Field("type", "String", FALSE), Field("not_null", "bool", TRUE),
    Field("unique", "bool", TRUE), Field("default", "Option<String>", TRUE)>>

ColumnDefinition(c) ==
  LET made(r) ==
        IF ~r.ok THEN r
        ELSE Ok([col_type |-> r.val["type"], not_null |-> r.val["not_null"],
                 unique |-> r.val["unique"], default |-> r.val["default"]])
  IN made(Struct(c, ColumnDefinitionFields))

Deserialize(ty, c) ==
  CASE ty = "String" -> DeString(c)
    [] ty = "bool" -> DeBool(c)
    [] ty = "Option<String>" -> DeOptionString(c)
    [] ty = "Option<usize>" -> DeOptionUsize(c)
    [] ty = "HashMap<String, Value>" -> DeHashMap(c, "Value")
    [] ty = "HashMap<String, ColumnDefinition>" -> DeHashMap(c, "ColumnDefinition")
    [] ty = "Value" -> DeValue(c)
    [] ty = "ColumnDefinition" -> ColumnDefinition(c)

(***************************************************************************)
(* ReadCommand: table is required; filter and limit are #[serde(default)]. *)
(***************************************************************************)
ReadCommandFields ==
  <<Field("table", "String", FALSE),
    Field("filter", "HashMap<String, Value>", TRUE),
    Field("limit", "Option<usize>", TRUE)>>

ReadCommand(c) ==
  LET made(r) ==
        IF ~r.ok THEN r
        ELSE Ok([table |-> r.val["table"], filter |-> r.val["filter"],
                 limit |-> r.val["limit"]])
  IN made(Struct(c, ReadCommandFields))

(***************************************************************************)
(* InsertCommand: table and rows, both required.                           *)
(***************************************************************************)
InsertCommandFields ==
  <<Field("table", "String", FALSE),
    Field("rows", "HashMap<String, Value>", FALSE)>>

InsertCommand(c) ==
  LET made(r) ==
        IF ~r.ok THEN r
        ELSE Ok([table |-> r.val["table"], rows |-> r.val["rows"]])
  IN made(Struct(c, InsertCommandFields))

(***************************************************************************)
(* Internally tagged enums (#[serde(tag = ...)]).                          *)
(* The tag is a variant identifier.  Read straight from the JSON input     *)
(* (the tag of Command) it has to be a string; read from the buffer (the   *)
(* tag of a nested enum) it is a string or the index of the variant.       *)
(***************************************************************************)
VariantByName(s, variants) ==
  IF s \in {variants[i] : i \in 1..Len(variants)} THEN Ok(s)
  ELSE Err("unknown_variant", s)

VariantFromInput(c, variants) ==
  IF c.c = "String" THEN VariantByName(c.s, variants)
  ELSE Err("invalid_type", "variant identifier")

VariantFromContent(c, variants) ==
  CASE c.c = "String" -> VariantByName(c.s, variants)
    [] c.c = "U64"    -> IF c.n < Len(variants) THEN Ok(variants[c.n + 1])
                         ELSE Err("invalid_value", "variant index")
    [] OTHER -> Err("invalid_type", "variant identifier")

RemoveAt(es, i) ==
  [j \in 1..(Len(es) - 1) |-> IF j < i THEN es[j] ELSE es[j + 1]]

\* The tag and the rest of the message.  In a map the tag is the entry
\* named tag (twice is a duplicate_field error); in a sequence it is the
\* first element.
Tagged(c, tag, variants, buffered) ==
  LET deTag(t) == IF buffered THEN VariantFromContent(t, variants)
                  ELSE VariantFromInput(t, variants)
      rest(t, multiple, content) ==
        IF ~t.ok THEN t
        ELSE IF multiple THEN Err("duplicate_field", tag)
        ELSE Ok([tag |-> t.val, content |-> content])
  IN CASE c.c = "Map" ->
            LET es == c.entries
                occ == Occ(es, tag)
            IN IF occ = {} THEN Err("missing_field", tag)
               ELSE rest(deTag(es[MinOf(occ)][2]), Cardinality(occ) > 1,
                         [c |-> "Map", entries |-> RemoveAt(es, MinOf(occ))])
       [] c.c = "Seq" ->
            IF Len(c.items) = 0 THEN Err("missing_field", tag)
            ELSE rest(deTag(c.items[1]), FALSE,
                      [c |-> "Seq", items |-> Tail(c.items)])
       [] OTHER -> Err("invalid_type", "internally tagged enum")

(***************************************************************************)
(* CreateCommand: tag "type", variants user and table.                     *)
(***************************************************************************)
CreateCommandVariants == <<"user", "table">>

CreateUserFields ==
  <<Field("username", "String", FALSE), Field("password", "String", FALSE),
    Field("role", "String", FALSE)>>

CreateTableFields ==
  <<Field("table", "String", FALSE), Field("primary_key", "String", FALSE),
    Field("rows", "HashMap<String, ColumnDefinition>", FALSE)>>

CreateCommand(c) ==
  LET User(r) ==
        IF ~r.ok THEN r
        ELSE Ok([type |-> "User",
                 username |-> r.val["username"],
                 password |-> r.val["password"],
                 role |-> r.val["role"]])
      Table(r) ==
        IF ~r.ok THEN r
        ELSE Ok([type |-> "Table",
                 table |-> r.val["table"],
                 primary_key |-> r.val["primary_key"],
                 rows |-> r.val["rows"]])
      variant(t) ==
        IF ~t.ok THEN t
        ELSE IF t.val.tag = "user"
        THEN User(Struct(t.val.content, CreateUserFields))
        ELSE Table(Struct(t.val.content, CreateTableFields))
  IN variant(Tagged(c, "type", CreateCommandVariants, TRUE))

(***************************************************************************)
(* UpdateCommand: tag "type", variants rows and content.                   *)
(***************************************************************************)
UpdateCommandVariants == <<"rows", "content">>

UpdateRowsFields ==
  <<Field("table", "String", FALSE),
    Field("add", "HashMap<String, ColumnDefinition>", FALSE)>>

UpdateContentFields ==
  <<Field("table", "String", FALSE), Field("filter", "String", FALSE),
    Field("rows", "HashMap<String, Value>", FALSE)>>

UpdateCommand(c) ==
  LET Rows(r) ==
        IF ~r.ok THEN r
        ELSE Ok([type |-> "Rows",
                 table |-> r.val["table"],
                 add |-> r.val["add"]])
      Content(r) ==
        IF ~r.ok THEN r
        ELSE Ok([type |-> "Content",
                 table |-> r.val["table"],
                 filter |-> r.val["filter"],
                 rows |-> r.val["rows"]])
      variant(t) ==
        IF ~t.ok THEN t
        ELSE IF t.val.tag = "rows"
        THEN Rows(Struct(t.val.content, UpdateRowsFields))
        ELSE Content(Struct(t.val.content, UpdateContentFields))
  IN variant(Tagged(c, "type", UpdateCommandVariants, TRUE))

(***************************************************************************)
(* DeleteCommand: tag "type", variants table and content.                  *)
(***************************************************************************)
DeleteCommandVariants == <<"table", "content">>

DeleteTableFields == <<Field("table", "String", FALSE)>>

DeleteContentFields ==
  <<Field("table", "String", FALSE), Field("filter", "String", FALSE)>>

\* Mutation of DeleteCommand: the variant is chosen by the fields present.
DeleteCommandSniff(c) ==
  LET Table(r) ==
        IF ~r.ok THEN r
        ELSE Ok([type |-> "Table", table |-> r.val["table"]])
      Content(r) ==
        IF ~r.ok THEN r
        ELSE Ok([type |-> "Content",
                 table |-> r.val["table"],
                 filter |-> r.val["filter"]])
      variant(t) ==
        IF ~t.ok THEN t
        ELSE IF t.val.content.c = "Map"
                /\ Occ(t.val.content.entries, "filter") = {}
        THEN Table(Struct(t.val.content, DeleteTableFields))
        ELSE Content(Struct(t.val.content, DeleteContentFields))
  IN variant(Tagged(c, "type", DeleteCommandVariants, TRUE))

DeleteCommand(c) ==
  LET Table(r) ==
        IF ~r.ok THEN r
        ELSE Ok([type |-> "Table", table |-> r.val["table"]])
      Content(r) ==
        IF ~r.ok THEN r
        ELSE Ok([type |-> "Content",
                 table |-> r.val["table"],
                 filter |-> r.val["filter"]])
      variant(t) ==
        IF ~t.ok THEN t
        ELSE IF t.val.tag = "table"
        THEN Table(Struct(t.val.content, DeleteTableFields))
        ELSE Content(Struct(t.val.content, DeleteContentFields))
  IN variant(Tagged(c, "type", DeleteCommandVariants, TRUE))

(***************************************************************************)
(* Command: tag "command"; each variant wraps the command of its name.     *)
(***************************************************************************)
CommandVariants == <<"create", "read", "update", "insert", "delete">>

Wrap(name, r) == IF r.ok THEN Ok([command |-> name, inner |-> r.val]) ELSE r

\* Mutation of Command: insert is dispatched to the read variant.
CommandSwap(j) ==
  LET variant(t) ==
        IF ~t.ok THEN t
        ELSE CASE t.val.tag = "create" ->
                    Wrap("Create", CreateCommand(t.val.content))
               [] t.val.tag = "read"   ->
                    Wrap("Read", ReadCommand(t.val.content))
               [] t.val.tag = "update" ->
                    Wrap("Update", UpdateCommand(t.val.content))
               [] t.val.tag = "insert" ->
                    Wrap("Read", ReadCommand(t.val.content))
               [] t.val.tag = "delete" ->
                    Wrap("Delete", DeleteCommand(t.val.content))
  IN variant(Tagged(ToContent(j), "command", CommandVariants, FALSE))

Command(j) ==
  LET variant(t) ==
        IF ~t.ok THEN t
        ELSE CASE t.val.tag = "create" ->
                    Wrap("Create", CreateCommand(t.val.content))
               [] t.val.tag = "read"   ->
                    Wrap("Read", ReadCommand(t.val.content))
               [] t.val.tag = "update" ->
                    Wrap("Update", UpdateCommand(t.val.content))
               [] t.val.tag = "insert" ->
                    Wrap("Insert", InsertCommand(t.val.content))
               [] t.val.tag = "delete" ->
                    Wrap("Delete", DeleteCommand(t.val.content))
  IN variant(Tagged(ToContent(j), "command", CommandVariants, FALSE))

(***************************************************************************)
(* The messages of the unit tests (parser.rs tests, parser_tests.rs).      *)
(***************************************************************************)
Fld(k, v) == <<k, v>>

test_parse_create_table ==
  JObj(<<Fld("command", JStr("create")), Fld("type", JStr("table")),
         Fld("table", JStr("products")), Fld("primary_key", JStr("id")),
         Fld("rows", JObj(<<
            Fld("id", JObj(<<Fld("type", JStr("int")), Fld("not_null", JBool(TRUE)),
                             Fld("unique", JBool(TRUE))>>)),
            Fld("product", JObj(<<Fld("type", JStr("string")),
                                  Fld("default", JStr("Unnamed"))>>)),
            Fld("price", JObj(<<Fld("type", JStr("float"))>>))>>))>>)

test_parse_create_user ==
  JObj(<<Fld("command", JStr("create")), Fld("type", JStr("user")),
         Fld("username", JStr("zkko")), Fld("password", JStr("pwd")),
         Fld("role", JStr("admin"))>>)

test_parse_read_table ==
  JObj(<<Fld("command", JStr("read")), Fld("table", JStr("products")),
         Fld("filter", JObj(<<Fld("price", JStr("20"))>>)),
         Fld("limit", JPosInt(5))>>)

test_parse_read_table_minimal ==
  JObj(<<Fld("command", JStr("read")), Fld("table", JStr("products"))>>)

test_parse_update_rows ==
  JObj(<<Fld("command", JStr("update")), Fld("type", JStr("rows")),
         Fld("table", JStr("products")),
         Fld("add", JObj(<<Fld("category", JObj(<<Fld("type", JStr("string"))>>))>>))>>)

test_parse_update_content ==
  JObj(<<Fld("command", JStr("update")), Fld("type", JStr("content")),
         Fld("table", JStr("products")), Fld("filter", JStr("id = 1")),
         Fld("rows", JObj(<<Fld("price", JFloat(230))>>))>>)

test_parse_insert ==
  JObj(<<Fld("command", JStr("insert")), Fld("table", JStr("products")),
         Fld("rows", JObj(<<Fld("id", JPosInt(1)), Fld("price", JFloat(2219)),
                            Fld("name", JStr("Coconut Water"))>>))>>)

test_parse_delete_table ==
  JObj(<<Fld("command", JStr("delete")), Fld("type", JStr("table")),
         Fld("table", JStr("products"))>>)

test_parse_delete_content ==
  JObj(<<Fld("command", JStr("delete")), Fld("type", JStr("content")),
         Fld("table", JStr("products")), Fld("filter", JStr("price > 10"))>>)

TestMessages ==
  {test_parse_create_table, test_parse_create_user, test_parse_read_table,
   test_parse_read_table_minimal, test_parse_update_rows,
   test_parse_update_content, test_parse_insert, test_parse_delete_table,
   test_parse_delete_content}

(***************************************************************************)
(* The inputs.  Every bound is named.                                      *)
(***************************************************************************)
\* Edits applied to a test message (a field dropped, set or repeated).
MaxEdits == 1
\* Entries of a rows / add / filter mapping.
MaxEntries == 2
\* Largest limit.
MaxLimit == 2

SeqsUpTo(S, n) == UNION {[1..m -> S] : m \in 0..n}

ColumnsOk == JObj(<<Fld("id", JObj(<<Fld("type", JStr("int"))>>))>>)
RowOk == JObj(<<Fld("id", JPosInt(1))>>)

\* Fields a client may add to a message.
Puts ==
  {Fld("command", JStr("insert")), Fld("command", JStr("truncate")),
   Fld("command", JStr("Create")), Fld("command", JPosInt(0)),
   Fld("type", JStr("table")), Fld("type", JStr("content")),
   Fld("type", JStr("rows")), Fld("type", JStr("bogus")),
   Fld("type", JPosInt(0)), Fld("type", JPosInt(2)),
   Fld("table", JStr("products")), Fld("table", JPosInt(7)),
   Fld("filter", JStr("id = 1")),
   Fld("filter", JObj(<<Fld("price", JStr("20"))>>)),
   Fld("limit", JPosInt(5)),
   Fld("rows", RowOk), Fld("rows", ColumnsOk), Fld("add", ColumnsOk),
   Fld("extra", JBool(TRUE))}

\* Fields a client may repeat.
Dups ==
  {Fld("command", JStr("read")), Fld("type", JStr("table")),
   Fld("table", JStr("orders"))}

DropField(m, i) == JObj(RemoveAt(m.fields, i))

\* Field f[1] set to f[2]: in place when the message has the field, else
\* appended.
PutField(m, f) ==
  IF Occ(m.fields, f[1]) = {} THEN JObj(Append(m.fields, f))
  ELSE JObj([m.fields EXCEPT ![MinOf(Occ(m.fields, f[1]))] = f])

DupField(m, f) == JObj(Append(m.fields, f))

EditOnce(m) ==
  {DropField(m, i) : i \in 1..Len(m.fields)}
    \cup {PutField(m, f) : f \in Puts}
    \cup {DupField(m, f) : f \in {d \in Dups : Occ(m.fields, d[1]) # {}}}

RECURSIVE Edited(_, _)
Edited(S, n) ==
  IF n = 0 THEN S
  ELSE LET T == Edited(S, n - 1) IN T \cup UNION {EditOnce(m) : m \in T}

ObjectMessages == Edited(TestMessages, MaxEdits)

\* The same messages as arrays: the values of the fields, in order.
ArrayOf(m) == JArr([i \in 1..Len(m.fields) |-> m.fields[i][2]])

ArrayMessages ==
  {ArrayOf(m) : m \in Edited(TestMessages, MaxEdits - 1)}
    \cup {JArr(<<JStr("read"), JStr("products"), JObj(<<>>), JPosInt(5)>>),
          JArr(<<JStr("insert"), JStr("products"), RowOk>>),
          JArr(<<JStr("create"), JPosInt(0), JStr("zkko"), JStr("pwd"),
                 JStr("admin")>>)}

ScalarMessages ==
  {JNull, JBool(TRUE), JPosInt(1), JNegInt(-1), JFloat(2219), JStr("read")}

\* Opaque values (row content, filter values).
OpaqueValues ==
  {JBool(TRUE), JPosInt(1), JNegInt(-3), JFloat(2219), JStr("Coconut Water")}

\* ... and those that only occur in one-entry mappings.
OpaqueValuesMore ==
  {JNull, JPosInt(0), JFloat(100), JStr("1"), JBool(FALSE),
   JArr(<<JPosInt(1), JStr("a")>>),
   JObj(<<Fld("a", JPosInt(1)), Fld("a", JFloat(100))>>)}

MapKeys == {"id", "name"}

OpaqueMaps ==
  {JObj(es) : es \in SeqsUpTo({Fld(k, v) : k \in MapKeys, v \in OpaqueValues},
                              MaxEntries)}
    \cup {JObj(<<Fld("id", v)>>) : v \in OpaqueValuesMore}

OpaqueMessages ==
  {JObj(<<Fld("command", JStr("insert")), Fld("table", JStr("products")),
          Fld("rows", m)>>) : m \in OpaqueMaps}
    \cup
  {JObj(<<Fld("command", JStr("update")), Fld("type", JStr("content")),
          Fld("table", JStr("products")), Fld("filter", JStr("id = 1")),
          Fld("rows", m)>>) : m \in OpaqueMaps}
    \cup
  {JObj(<<Fld("command", JStr("read")), Fld("table", JStr("products")),
          Fld("filter", m)>>) : m \in OpaqueMaps}

\* Column definitions: every choice of absent / well-shaped / ill-shaped
\* for each field, and entries that are no objects.
Choice(k, vs) == {<<>>} \cup {<<Fld(k, v)>> : v \in vs}

ColumnObjects ==
  {JObj(t \o n \o u \o d) :
     t \in Choice("type", {JStr("int"), JPosInt(5)}),
     n \in Choice("not_null", {JBool(TRUE), JStr("yes")}),
     u \in Choice("unique", {JBool(TRUE), JPosInt(1)}),
     d \in Choice("default", {JStr("Unnamed"), JPosInt(7), JNull})}

ColumnEntries ==
  {JObj(<<Fld("type", JStr("int"))>>),
   JObj(<<Fld("type", JStr("string")), Fld("not_null", JBool(TRUE)),
          Fld("unique", JBool(FALSE)), Fld("default", JStr("Unnamed"))>>),
   JObj(<<Fld("not_null", JBool(TRUE))>>),
   JObj(<<Fld("type", JStr("int")), Fld("unique", JStr("yes"))>>),
   JStr("int"),
   JArr(<<JStr("int")>>)}

\* ... and those that only occur in one-entry mappings.
ColumnEntriesMore ==
  {JNull, JPosInt(1), JArr(<<>>), JArr(<<JPosInt(5)>>),
   JArr(<<JStr("int"), JBool(TRUE), JBool(TRUE), JStr("Unnamed")>>),
   JArr(<<JStr("int"), JBool(TRUE), JBool(TRUE), JNull, JNull>>),
   JObj(<<Fld("type", JStr("int")), Fld("type", JStr("float"))>>),
   JObj(<<Fld("type", JStr("int")), Fld("comment", JPosInt(1))>>)}

ColumnMaps ==
  {JObj(es) : es \in SeqsUpTo({Fld(k, v) : k \in MapKeys, v \in ColumnEntries},
                              MaxEntries)}
    \cup {JObj(<<Fld("id", v)>>) : v \in ColumnObjects \cup ColumnEntriesMore}

ColumnMessages ==
  {JObj(<<Fld("command", JStr("create")), Fld("type", JStr("table")),
          Fld("table", JStr("products")), Fld("primary_key", JStr("id")),
          Fld("rows", m)>>) : m \in ColumnMaps}
    \cup
  {JObj(<<Fld("command", JStr("update")), Fld("type", JStr("rows")),
          Fld("table", JStr("products")), Fld("add", m)>>) : m \in ColumnMaps}

\* Read messages over the values of limit.
LimitValues ==
  {JPosInt(n) : n \in 0..MaxLimit} \cup {JNegInt(-n) : n \in 1..MaxLimit}
    \cup {JFloat(100 * n + 50) : n \in 0..MaxLimit}
    \cup {JFloat(100), JStr("5"), JNull, JBool(TRUE), JArr(<<JPosInt(5)>>)}

LimitMessages ==
  {JObj(<<Fld("command", JStr("read")), Fld("table", JStr("products"))>>
        \o f \o l) :
     f \in Choice("filter", {JObj(<<>>), JObj(<<Fld("price", JStr("20"))>>),
                             JStr("id = 1"), JNull}),
     l \in Choice("limit", LimitValues)}

Messages ==
  ObjectMessages \cup ArrayMessages \cup ScalarMessages \cup OpaqueMessages
    \cup ColumnMessages \cup LimitMessages

Pending == Err("pending", "")

Init ==
  /\ raw \in Messages
  /\ result = Pending
  /\ pc = "start"

\* serde_json::from_str::<Command>(input)
Decode ==
  /\ pc = "start"
  /\ result' = Command(raw)
  /\ pc' = "done"
  /\ UNCHANGED raw

Next == Decode

Spec == Init /\ [][Next]_vars

(***************************************************************************)
(* Reading a message as the grammar describes it (independently of the     *)
(* decoder).                                                               *)
(***************************************************************************)
IsObject(j) == j.kind = "object"
IsStr(j) == j.kind = "str"
StrIn(j, S) == j.kind = "str" /\ j.s \in S
Has(j, k) == Occ(j.fields, k) # {}
Once(j, k) == Cardinality(Occ(j.fields, k)) = 1
AtMostOnce(j, k) == Cardinality(Occ(j.fields, k)) <= 1
Val(j, k) == j.fields[MinOf(Occ(j.fields, k))][2]
LastVal(j, k) == j.fields[MaxOf(Occ(j.fields, k))][2]
IsText(j, k) == Once(j, k) /\ IsStr(Val(j, k))
DistinctKeys(j) == \A k \in KeysOf(j.fields) : Once(j, k)
Lacks(j, S) == \E k \in S : ~Has(j, k)

\* An object whose one command field is cmd (and whose one type field is ty).
Named(j, cmd) ==
  IsObject(j) /\ Once(j, "command") /\ StrIn(Val(j, "command"), {cmd})
NamedSub(j, cmd, ty) ==
  Named(j, cmd) /\ Once(j, "type") /\ StrIn(Val(j, "type"), {ty})

VariantName(cmd) ==
  CASE cmd = "create" -> "Create" [] cmd = "read" -> "Read"
    [] cmd = "update" -> "Update" [] cmd = "insert" -> "Insert"
    [] cmd = "delete" -> "Delete"

SubName(ty) ==
  CASE ty = "user" -> "User" [] ty = "table" -> "Table"
    [] ty = "rows" -> "Rows" [] ty = "content" -> "Content"
    [] OTHER -> "none"

\* A well-formed column definition: an object with a text type, boolean
\* not_null / unique and a text default.
WfColumn(e) ==
  /\ IsObject(e) /\ DistinctKeys(e)
  /\ Has(e, "type") /\ IsStr(Val(e, "type"))
  /\ (Has(e, "not_null") => Val(e, "not_null").kind = "bool")
  /\ (Has(e, "unique") => Val(e, "unique").kind = "bool")
  /\ (Has(e, "default") => IsStr(Val(e, "default")))

WfColumnMap(m, distinct) ==
  /\ IsObject(m) /\ (distinct => DistinctKeys(m))
  /\ \A i \in 1..Len(m.fields) : WfColumn(m.fields[i][2])

WfValueMap(m, distinct) == IsObject(m) /\ (distinct => DistinctKeys(m))

WfLimit(l) == l.kind = "posint" /\ l.n >= 1

\* The fields of the selected (sub-)variant are well-formed; the message
\* may carry any other field.  distinct: mapping keys do not repeat.
WfVariant(j, distinct) ==
  \/ /\ Named(j, "read") /\ IsText(j, "table")
     /\ AtMostOnce(j, "filter")
     /\ (Has(j, "filter") => WfValueMap(Val(j, "filter"), distinct))
     /\ AtMostOnce(j, "limit")
     /\ (Has(j, "limit") => WfLimit(Val(j, "limit")))
  \/ /\ Named(j, "insert") /\ IsText(j, "table")
     /\ Once(j, "rows") /\ WfValueMap(Val(j, "rows"), distinct)
  \/ /\ NamedSub(j, "create", "user")
     /\ IsText(j, "username") /\ IsText(j, "password") /\ IsText(j, "role")
  \/ /\ NamedSub(j, "create", "table")
     /\ IsText(j, "table") /\ IsText(j, "primary_key")
     /\ Once(j, "rows") /\ WfColumnMap(Val(j, "rows"), distinct)
  \/ /\ NamedSub(j, "update", "rows") /\ IsText(j, "table")
     /\ Once(j, "add") /\ WfColumnMap(Val(j, "add"), distinct)
  \/ /\ NamedSub(j, "update", "content")
     /\ IsText(j, "table") /\ IsText(j, "filter")
     /\ Once(j, "rows") /\ WfValueMap(Val(j, "rows"), distinct)
  \/ NamedSub(j, "delete", "table") /\ IsText(j, "table")
  \/ NamedSub(j, "delete", "content") /\ IsText(j, "table") /\ IsText(j, "filter")

WellFormed(j) == WfVariant(j, TRUE)

\* Decoded value v is JSON value j, kind and content.
RECURSIVE SameValue(_, _)
SameValue(j, v) ==
  CASE j.kind = "null"   -> v.v = "Null"
    [] j.kind = "bool"   -> v.v = "Bool" /\ v.b = j.b
    [] j.kind = "posint" -> v.v = "Number" /\ v.n.repr = "PosInt" /\ v.n.n = j.n
    [] j.kind = "negint" -> v.v = "Number" /\ v.n.repr = "NegInt" /\ v.n.n = j.n
    [] j.kind = "float"  -> v.v = "Number" /\ v.n.repr = "Float" /\ v.n.h = j.h
    [] j.kind = "str"    -> v.v = "String" /\ v.s = j.s
    [] j.kind = "array"  ->
         /\ v.v = "Array" /\ Len(v.items) = Len(j.items)
         /\ \A i \in 1..Len(j.items) : SameValue(j.items[i], v.items[i])
    [] j.kind = "object" ->
         /\ v.v = "Object" /\ DOMAIN v.map = KeysOf(j.fields)
         /\ \A k \in KeysOf(j.fields) : SameValue(LastVal(j, k), v.map[k])

\* Decoded mapping m has the keys of mapping j, each with the value of its
\* (last) entry.
FaithfulMap(j, m) ==
  /\ DOMAIN m = KeysOf(j.fields)
  /\ \A k \in KeysOf(j.fields) : SameValue(LastVal(j, k), m[k])

\* Decoded column d is the well-formed column definition e, absent fields
\* defaulted.
SameColumn(e, d) ==
  /\ d.col_type = Val(e, "type").s
  /\ d.not_null = (IF Has(e, "not_null") THEN Val(e, "not_null").b ELSE FALSE)
  /\ d.unique = (IF Has(e, "unique") THEN Val(e, "unique").b ELSE FALSE)
  /\ d.default = (IF Has(e, "default") THEN Some(Val(e, "default").s) ELSE None)

FaithfulColumns(j, m) ==
  /\ DOMAIN m = KeysOf(j.fields)
  /\ \A k \in KeysOf(j.fields) : SameColumn(LastVal(j, k), m[k])

Done == pc = "done"
Decoded == result.val.inner

(***************************************************************************)
(* C1  Top-level dispatch: an object whose command is one of the five      *)
(* literals and whose fields are well-formed for that command decodes,     *)
(* and to the variant named by command, whatever else it carries.          *)
(***************************************************************************)
C1_Dispatch ==
  Done /\ WellFormed(raw) =>
    result.ok /\ result.val.command = VariantName(Val(raw, "command").s)

\* An insert message with a field no variant knows, decoded to Insert.
C1_Witness ==
  /\ Done /\ WellFormed(raw) /\ Named(raw, "insert") /\ Has(raw, "extra")
  /\ result.ok /\ result.val.command = "Insert"

(***************************************************************************)
(* C2  Sub-variant dispatch: the sub-variant of a decoded create, update   *)
(* or delete command is the one named by the text of the type field,       *)
(* whatever fields are present; an update of type rows without add does    *)
(* not decode.                                                             *)
(***************************************************************************)
C2_SubVariantByType ==
  Done /\ IsObject(raw) =>
    /\ ((result.ok /\ result.val.command \in {"Create", "Update", "Delete"}
           /\ Has(raw, "type") /\ IsStr(Val(raw, "type")))
          => Decoded.type = SubName(Val(raw, "type").s))
    /\ (NamedSub(raw, "update", "rows") /\ ~Has(raw, "add") => ~result.ok)

\* A delete of type table that also carries a filter, decoded to Table.
C2_Witness ==
  /\ Done /\ NamedSub(raw, "delete", "table") /\ Has(raw, "filter")
  /\ result.ok /\ result.val.command = "Delete" /\ Decoded.type = "Table"

(***************************************************************************)
(* C3  Defaulting: an absent optional field never fails the decode and     *)
(* takes its default (filter: empty mapping, limit: absent, not_null and   *)
(* unique: false, default: absent); a present well-shaped one is decoded   *)
(* to the value supplied.                                                  *)
(***************************************************************************)
C3_Defaulting ==
  Done =>
    /\ (WellFormed(raw) /\ Named(raw, "read") =>
          /\ result.ok
          /\ IF Has(raw, "filter")
             THEN FaithfulMap(Val(raw, "filter"), Decoded.filter)
             ELSE Decoded.filter = EmptyMap
          /\ Decoded.limit = (IF Has(raw, "limit")
                              THEN Some(Val(raw, "limit").n) ELSE None))
    /\ (WellFormed(raw) /\ NamedSub(raw, "create", "table") =>
          result.ok /\ FaithfulColumns(Val(raw, "rows"), Decoded.rows))
    /\ (WellFormed(raw) /\ NamedSub(raw, "update", "rows") =>
          result.ok /\ FaithfulColumns(Val(raw, "add"), Decoded.add))

\* A column definition with only a type, decoded with the three defaults.
C3_Witness ==
  /\ Done /\ WellFormed(raw) /\ NamedSub(raw, "create", "table")
  /\ \E k \in KeysOf(Val(raw, "rows").fields) :
       /\ KeysOf(Val(Val(raw, "rows"), k).fields) = {"type"}
       /\ result.ok
       /\ Decoded.rows[k].not_null = FALSE /\ Decoded.rows[k].unique = FALSE
       /\ Decoded.rows[k].default = None

(***************************************************************************)
(* C4  Unknown discriminant rejected: an object whose command is not one   *)
(* of the five literals, or a create / update / delete whose type is not   *)
(* a literal of that command, never decodes.                               *)
(***************************************************************************)
Literals(cmd) ==
  CASE cmd = "create" -> {"user", "table"}
    [] cmd = "update" -> {"rows", "content"}
    [] cmd = "delete" -> {"table", "content"}

UnknownCommand(j) ==
  /\ Has(j, "command")
  /\ ~StrIn(Val(j, "command"), {"create", "read", "update", "insert", "delete"})

UnknownType(j) ==
  /\ Has(j, "command")
  /\ StrIn(Val(j, "command"), {"create", "update", "delete"})
  /\ Has(j, "type")
  /\ ~StrIn(Val(j, "type"), Literals(Val(j, "command").s))

C4_UnknownDiscriminantRejected ==
  Done /\ IsObject(raw) /\ (UnknownCommand(raw) \/ UnknownType(raw)) => ~result.ok

(***************************************************************************)
(* C5  Missing required field rejected: a message that lacks a required    *)
(* field of the (sub-)variant it names, or holds a column definition       *)
(* without type, never decodes.                                            *)
(***************************************************************************)
ColumnWithoutType(m) ==
  /\ IsObject(m)
  /\ \E i \in 1..Len(m.fields) :
       IsObject(m.fields[i][2]) /\ ~Has(m.fields[i][2], "type")

MissingRequired(j) ==
  \/ Named(j, "read") /\ Lacks(j, {"table"})
  \/ Named(j, "insert") /\ Lacks(j, {"table", "rows"})
  \/ NamedSub(j, "create", "user") /\ Lacks(j, {"username", "password", "role"})
  \/ NamedSub(j, "create", "table") /\ Lacks(j, {"table", "primary_key", "rows"})
  \/ NamedSub(j, "update", "rows") /\ Lacks(j, {"table", "add"})
  \/ NamedSub(j, "update", "content") /\ Lacks(j, {"table", "filter", "rows"})
  \/ NamedSub(j, "delete", "table") /\ Lacks(j, {"table"})
  \/ NamedSub(j, "delete", "content") /\ Lacks(j, {"table", "filter"})
  \/ /\ NamedSub(j, "create", "table") /\ Has(j, "rows")
     /\ ColumnWithoutType(Val(j, "rows"))
  \/ /\ NamedSub(j, "update", "rows") /\ Has(j, "add")
     /\ ColumnWithoutType(Val(j, "add"))

\* As amended: table is required of every variant but create user.
C5_MissingRequiredRejected ==
  Done /\ IsObject(raw) /\ MissingRequired(raw) => ~result.ok

\* As stated: any command without table is rejected as well.
C5_AnyCommandWithoutTable ==
  Done /\ IsObject(raw) /\ Has(raw, "command")
       /\ (MissingRequired(raw) \/ ~Has(raw, "table")) => ~result.ok

\* An insert without rows, rejected for the missing field.
C5_Witness ==
  /\ Done /\ Named(raw, "insert") /\ Has(raw, "table") /\ ~Has(raw, "rows")
  /\ ~result.ok /\ result.err = "missing_field" /\ result.at = "rows"

(***************************************************************************)
(* C6  Duplicate keys in a mapping field (rows, add, filter).              *)
(***************************************************************************)
Repeats(m) == IsObject(m) /\ ~DistinctKeys(m)

DuplicateInMapping(j) ==
  \/ Named(j, "read") /\ Has(j, "filter") /\ Repeats(Val(j, "filter"))
  \/ Named(j, "insert") /\ Has(j, "rows") /\ Repeats(Val(j, "rows"))
  \/ NamedSub(j, "update", "content") /\ Has(j, "rows") /\ Repeats(Val(j, "rows"))
  \/ NamedSub(j, "create", "table") /\ Has(j, "rows") /\ Repeats(Val(j, "rows"))
  \/ NamedSub(j, "update", "rows") /\ Has(j, "add") /\ Repeats(Val(j, "add"))

\* As stated: a mapping with a repeated key fails the decode.
C6_DuplicateKeysRejected ==
  Done /\ DuplicateInMapping(raw) => ~result.ok

\* As amended: a message that is well-formed but for a repeated mapping
\* key decodes, and the key holds the value of its last entry.
C6_LastEntryWins ==
  Done /\ DuplicateInMapping(raw) /\ WfVariant(raw, FALSE) =>
    /\ result.ok
    /\ (Named(raw, "read") => FaithfulMap(Val(raw, "filter"), Decoded.filter))
    /\ (Named(raw, "insert") => FaithfulMap(Val(raw, "rows"), Decoded.rows))
    /\ (NamedSub(raw, "update", "content") =>
          FaithfulMap(Val(raw, "rows"), Decoded.rows))
    /\ (NamedSub(raw, "create", "table") =>
          FaithfulColumns(Val(raw, "rows"), Decoded.rows))
    /\ (NamedSub(raw, "update", "rows") =>
          FaithfulColumns(Val(raw, "add"), Decoded.add))

\* An insert whose rows give id twice with different values: decoded, id
\* holding the second.
C6_Witness ==
  /\ Done /\ Named(raw, "insert") /\ WfVariant(raw, FALSE)
  /\ Cardinality(Occ(Val(raw, "rows").fields, "id")) = 2
  /\ result.ok
  /\ SameValue(LastVal(Val(raw, "rows"), "id"), Decoded.rows["id"])
  /\ ~SameValue(Val(Val(raw, "rows"), "id"), Decoded.rows["id"])

(***************************************************************************)
(* C7  Non-object input rejected: a message that is not an object (an      *)
(* array, a scalar, null) never decodes.                                   *)
(***************************************************************************)
C7_NonObjectRejected ==
  Done /\ ~IsObject(raw) => ~result.ok

(***************************************************************************)
(* C8  Opaque value fidelity: the decoded rows of an insert or update      *)
(* content, and the decoded filter of a read, have exactly the keys of     *)
(* the message's mapping, each value of the same kind and content; such a  *)
(* message decodes whatever the values are.                                *)
(***************************************************************************)
C8_OpaqueFidelity ==
  Done /\ IsObject(raw) =>
    /\ (result.ok /\ result.val.command = "Insert" =>
          FaithfulMap(Val(raw, "rows"), Decoded.rows))
    /\ (result.ok /\ result.val.command = "Update" /\ Decoded.type = "Content" =>
          FaithfulMap(Val(raw, "rows"), Decoded.rows))
    /\ (result.ok /\ result.val.command = "Read" /\ Has(raw, "filter") =>
          FaithfulMap(Val(raw, "filter"), Decoded.filter))
    /\ ((WfVariant(raw, FALSE)
           /\ (Named(raw, "insert") \/ Named(raw, "read")
                 \/ NamedSub(raw, "update", "content")))
          => result.ok)

\* The insert of the unit test: an integer, a float and a text, each
\* decoded as its own kind.
C8_Witness ==
  /\ Done /\ raw = test_parse_insert /\ result.ok
  /\ Decoded.rows["id"] = [v |-> "Number", n |-> [repr |-> "PosInt", n |-> 1]]
  /\ Decoded.rows["price"] = [v |-> "Number", n |-> [repr |-> "Float", h |-> 2219]]
  /\ Decoded.rows["name"] = [v |-> "String", s |-> "Coconut Water"]

(***************************************************************************)
(* C9  The limit of a decoded read.                                        *)
(***************************************************************************)
\* As stated: limit is absent or at least 1.
C9_LimitPositive ==
  Done /\ result.ok /\ result.val.command = "Read" =>
    Decoded.limit = None \/ Decoded.limit.v >= 1

RejectedLimit(l) ==
  l.kind \in {"negint", "float", "str", "bool", "array", "object"}

\* As amended: limit is absent or at least 0.  A negative, non-integer,
\* text, boolean, array or object limit is rejected, with an invalid type
\* or invalid value error; a non-negative integer limit, 0 included, is
\* decoded as given.
C9_LimitNonNegative ==
  Done =>
    /\ (result.ok /\ result.val.command = "Read" =>
          Decoded.limit = None \/ Decoded.limit.v >= 0)
    /\ (Named(raw, "read") /\ Has(raw, "limit")
          /\ RejectedLimit(Val(raw, "limit")) => ~result.ok)
    /\ (Named(raw, "read") /\ IsText(raw, "table") /\ ~Has(raw, "filter")
          /\ Once(raw, "limit") /\ RejectedLimit(Val(raw, "limit"))
          => result.err \in {"invalid_type", "invalid_value"})
    /\ (Named(raw, "read") /\ IsText(raw, "table") /\ ~Has(raw, "filter")
          /\ Once(raw, "limit") /\ Val(raw, "limit").kind = "posint"
          => result.ok /\ Decoded.limit = Some(Val(raw, "limit").n))

\* A read with limit 0, decoded with limit 0.
C9_Witness ==
  /\ Done /\ Named(raw, "read") /\ Once(raw, "limit")
  /\ Val(raw, "limit") = JPosInt(0)
  /\ result.ok /\ Decoded.limit = Some(0)

(***************************************************************************)
(* C10  All-or-nothing on nested errors: one entry of rows (create table)  *)
(* or add (update rows) that is no column definition fails the decode.     *)
(***************************************************************************)
ColumnFieldNames == {"type", "not_null", "unique", "default"}

\* As stated: not an object, type missing or not text, not_null / unique
\* not boolean, default not text.
InvalidAsStated(e) ==
  \/ ~IsObject(e)
  \/ ~Has(e, "type")
  \/ \E i \in 1..Len(e.fields) :
       \/ e.fields[i][1] = "type" /\ ~IsStr(e.fields[i][2])
       \/ e.fields[i][1] \in {"not_null", "unique"} /\ e.fields[i][2].kind # "bool"
       \/ e.fields[i][1] = "default" /\ ~IsStr(e.fields[i][2])

\* As amended: null is a default (absent), and an array is read by
\* position as (type, not_null, unique, default).
IllShaped(name, v) ==
  CASE name = "type" -> ~IsStr(v)
    [] name \in {"not_null", "unique"} -> v.kind # "bool"
    [] name = "default" -> v.kind \notin {"str", "null"}

ColumnPosition == <<"type", "not_null", "unique", "default">>

Undecodable(e) ==
  CASE e.kind = "object" ->
         \/ ~Has(e, "type")
         \/ \E k \in ColumnFieldNames : Cardinality(Occ(e.fields, k)) > 1
         \/ \E i \in 1..Len(e.fields) :
              /\ e.fields[i][1] \in ColumnFieldNames
              /\ IllShaped(e.fields[i][1], e.fields[i][2])
    [] e.kind = "array" ->
         \/ Len(e.items) = 0
         \/ Len(e.items) > Len(ColumnPosition)
         \/ \E i \in 1..Len(e.items) :
              i <= Len(ColumnPosition) /\ IllShaped(ColumnPosition[i], e.items[i])
    [] OTHER -> TRUE

ColumnMapping(j) ==
  IF NamedSub(j, "create", "table") /\ Has(j, "rows") /\ IsObject(Val(j, "rows"))
  THEN Val(j, "rows").fields
  ELSE IF NamedSub(j, "update", "rows") /\ Has(j, "add") /\ IsObject(Val(j, "add"))
  THEN Val(j, "add").fields
  ELSE <<>>

====
